---- MODULE Spec2Model ----
(***************************************************************************)
(* Model of embassy-sync's bounded MPMC channel (channel.rs): the          *)
(* ChannelState (a heapless Deque and two WakerRegistration slots), the    *)
(* lock-guarded projections of Channel, and the send / receive futures     *)
(* polled by an executor.  Every lock closure is one atomic action.        *)
(***************************************************************************)
EXTENDS Naturals, Sequences, FiniteSets

\* ------------------------------------------------------------------ bounds
MaxN == 2          \* channel capacities explored: N \in 1..MaxN
MaxMsgs == 3       \* messages created in one run (message ids 1..MaxMsgs)

\* ---------------------------------------------------------------- contexts
Tasks == {"t1", "t2", "main"}    \* executor tasks, each with its own waker
Spawned == {"t1", "t2"}          \* the tasks that use the channel freely
ISR == "isr"                     \* a context with no waker (interrupt handler)
NoWaker == "none"                \* WakerRegistration { waker: None }
NoCx == "nocx"                   \* cx: None
NoMsg == 0                       \* Option<T>::None
Contexts == Tasks \cup {ISR}     \* everything that can call into the channel
Unlocked == "unlocked"           \* the Mutex is not held

VARIABLES
    N,                \* const N: usize of this Channel
    queue,            \* ChannelState.queue
    receiver_waker,   \* ChannelState.receiver_waker
    senders_waker,    \* ChannelState.senders_waker
    fut,              \* per task: the future it awaits [kind, message, state]
    signalled,        \* per task: its waker was called since its last poll
    nextMsg,          \* next fresh message id
    sent,             \* history: messages accepted by the queue, in order
    received,         \* history: the value each successful receive returned
    discarded,        \* history: messages dropped from the queue by clear()
    last,             \* the last operation and what it returned
    lock,             \* Channel.inner: the context inside Mutex::lock
    inside            \* per context: the lock closure it is running

vars == <<N, queue, receiver_waker, senders_waker, fut, signalled, nextMsg,
          sent, received, discarded, last, lock, inside>>

\* ------------------------------------------------------------ heapless::Deque
is_full(q) == Len(q) = N
is_empty(q) == Len(q) = 0
front(q) == IF Len(q) = 0 THEN NoMsg ELSE Head(q)
pop_front(q) ==
    IF Len(q) = 0 THEN [some |-> FALSE, v |-> NoMsg, q |-> q]
    ELSE [some |-> TRUE, v |-> Head(q), q |-> Tail(q)]
push_back(q, m) ==
    IF Len(q) < N THEN [ok |-> TRUE, q |-> Append(q, m)]
    ELSE [ok |-> FALSE, q |-> q]

\* --------------------------------------------------------- WakerRegistration
\* mutant: register signals the handle it replaces
register_wakes_replaced(slot, w) ==
    [slot |-> w, woken |-> IF slot \in {NoWaker, w} THEN <<>> ELSE <<slot>>]
\* register: the slot holds the new handle, the old one is dropped unsignalled
register(slot, w) == [slot |-> w, woken |-> <<>>]
\* wake: take the handle out and signal it
wake(slot) ==
    [slot |-> NoWaker, woken |-> IF slot = NoWaker THEN <<>> ELSE <<slot>>]

\* --------------------------------------------------------------- ChannelState
State == [queue |-> queue, receiver_waker |-> receiver_waker,
          senders_waker |-> senders_waker]

\* if self.queue.is_full() { self.senders_waker.wake(); }
WakeSendersIfFull(c) == IF is_full(c.queue) THEN wake(c.senders_waker)
                        ELSE [slot |-> c.senders_waker, woken |-> <<>>]

\* mutant: peeking takes the front message out of the queue
try_peek_with_context_pop(c, cx) ==
    LET w == WakeSendersIfFull(c) IN
    IF Len(c.queue) > 0
    THEN [queue |-> Tail(c.queue), receiver_waker |-> c.receiver_waker,
          senders_waker |-> w.slot, res |-> "Ok", val |-> Head(c.queue),
          woken |-> w.woken]
    ELSE [queue |-> c.queue,
          receiver_waker |-> IF cx # NoCx THEN cx ELSE c.receiver_waker,
          senders_waker |-> w.slot, res |-> "Empty", val |-> NoMsg,
          woken |-> w.woken]

try_peek_with_context(c, cx) ==
    LET w == WakeSendersIfFull(c) IN
    IF front(c.queue) # NoMsg
    THEN [queue |-> c.queue, receiver_waker |-> c.receiver_waker,
          senders_waker |-> w.slot, res |-> "Ok", val |-> front(c.queue),
          woken |-> w.woken]
    ELSE LET r == IF cx # NoCx THEN register(c.receiver_waker, cx)
                  ELSE [slot |-> c.receiver_waker, woken |-> <<>>] IN
         [queue |-> c.queue, receiver_waker |-> r.slot,
          senders_waker |-> w.slot, res |-> "Empty", val |-> NoMsg,
          woken |-> w.woken \o r.woken]

\* mutant: an empty queue never registers the context it was given
try_receive_with_context_no_register(c, cx) ==
    LET w == WakeSendersIfFull(c)
        p == pop_front(c.queue) IN
    IF p.some
    THEN [queue |-> p.q, receiver_waker |-> c.receiver_waker,
          senders_waker |-> w.slot, res |-> "Ok", val |-> p.v,
          woken |-> w.woken]
    ELSE [queue |-> p.q, receiver_waker |-> c.receiver_waker,
          senders_waker |-> w.slot, res |-> "Empty", val |-> NoMsg,
          woken |-> w.woken]

\* mutant: a full queue is dequeued without waking the producer slot
try_receive_with_context_no_wake(c, cx) ==
    LET p == pop_front(c.queue) IN
    IF p.some
    THEN [queue |-> p.q, receiver_waker |-> c.receiver_waker,
          senders_waker |-> c.senders_waker, res |-> "Ok", val |-> p.v,
          woken |-> <<>>]
    ELSE [queue |-> p.q,
          receiver_waker |-> IF cx # NoCx THEN cx ELSE c.receiver_waker,
          senders_waker |-> c.senders_waker, res |-> "Empty", val |-> NoMsg,
          woken |-> <<>>]

\* mutant: the newest message is popped instead of the oldest
try_receive_with_context_lifo(c, cx) ==
    LET w == WakeSendersIfFull(c) IN
    IF Len(c.queue) > 0
    THEN [queue |-> SubSeq(c.queue, 1, Len(c.queue) - 1),
          receiver_waker |-> c.receiver_waker, senders_waker |-> w.slot,
          res |-> "Ok", val |-> c.queue[Len(c.queue)], woken |-> w.woken]
    ELSE [queue |-> c.queue,
          receiver_waker |-> IF cx # NoCx THEN cx ELSE c.receiver_waker,
          senders_waker |-> w.slot, res |-> "Empty", val |-> NoMsg,
          woken |-> w.woken]

try_receive_with_context(c, cx) ==
    LET w == WakeSendersIfFull(c)
        p == pop_front(c.queue) IN
    IF p.some
    THEN [queue |-> p.q, receiver_waker |-> c.receiver_waker,
          senders_waker |-> w.slot, res |-> "Ok", val |-> p.v,
          woken |-> w.woken]
    ELSE LET r == IF cx # NoCx THEN register(c.receiver_waker, cx)
                  ELSE [slot |-> c.receiver_waker, woken |-> <<>>] IN
         [queue |-> p.q, receiver_waker |-> r.slot,
          senders_waker |-> w.slot, res |-> "Empty", val |-> NoMsg,
          woken |-> w.woken \o r.woken]

\* mutant: poll_receive registers the context before it looks at the queue
poll_receive_eager(c, cx) ==
    LET w == WakeSendersIfFull(c)
        p == pop_front(c.queue)
        g == register(c.receiver_waker, cx) IN
    IF p.some
    THEN [queue |-> p.q, receiver_waker |-> g.slot,
          senders_waker |-> w.slot, res |-> "Ready", val |-> p.v,
          woken |-> w.woken \o g.woken]
    ELSE [queue |-> p.q, receiver_waker |-> g.slot,
          senders_waker |-> w.slot, res |-> "Pending", val |-> NoMsg,
          woken |-> w.woken \o g.woken]

\* mutant: a full queue is popped without waking the producer slot
poll_receive_no_wake(c, cx) ==
    IF Len(c.queue) > 0
    THEN [queue |-> Tail(c.queue), receiver_waker |-> c.receiver_waker,
          senders_waker |-> c.senders_waker, res |-> "Ready",
          val |-> Head(c.queue), woken |-> <<>>]
    ELSE [queue |-> c.queue, receiver_waker |-> cx,
          senders_waker |-> c.senders_waker, res |-> "Pending",
          val |-> NoMsg, woken |-> <<>>]

\* mutant: the message is returned but left in the queue
poll_receive_no_pop(c, cx) ==
    LET w == WakeSendersIfFull(c) IN
    IF Len(c.queue) > 0
    THEN [queue |-> c.queue, receiver_waker |-> c.receiver_waker,
          senders_waker |-> w.slot, res |-> "Ready", val |-> Head(c.queue),
          woken |-> w.woken]
    ELSE [queue |-> c.queue, receiver_waker |-> cx,
          senders_waker |-> w.slot, res |-> "Pending", val |-> NoMsg,
          woken |-> w.woken]

poll_receive(c, cx) ==
    LET w == WakeSendersIfFull(c)
        p == pop_front(c.queue) IN
    IF p.some
    THEN [queue |-> p.q, receiver_waker |-> c.receiver_waker,
          senders_waker |-> w.slot, res |-> "Ready", val |-> p.v,
          woken |-> w.woken]
    ELSE LET r == register(c.receiver_waker, cx) IN
         [queue |-> p.q, receiver_waker |-> r.slot,
          senders_waker |-> w.slot, res |-> "Pending", val |-> NoMsg,
          woken |-> w.woken \o r.woken]

\* mutant: the consumer is registered only when the queue is empty
poll_ready_to_receive_lazy(c, cx) ==
    [queue |-> c.queue,
     receiver_waker |-> IF is_empty(c.queue) THEN cx ELSE c.receiver_waker,
     senders_waker |-> c.senders_waker,
     res |-> IF ~is_empty(c.queue) THEN "Ready" ELSE "Pending",
     val |-> NoMsg, woken |-> <<>>]

poll_ready_to_receive(c, cx) ==
    LET r == register(c.receiver_waker, cx) IN
    [queue |-> c.queue, receiver_waker |-> r.slot,
     senders_waker |-> c.senders_waker,
     res |-> IF ~is_empty(c.queue) THEN "Ready" ELSE "Pending",
     val |-> NoMsg, woken |-> r.woken]

\* mutant: success is reported but the message is not stored
try_send_with_context_lossy(c, message, cx) ==
    IF Len(c.queue) < N
    THEN [queue |-> c.queue, receiver_waker |-> NoWaker,
          senders_waker |-> c.senders_waker, res |-> "Ok", val |-> NoMsg,
          woken |-> wake(c.receiver_waker).woken]
    ELSE [queue |-> c.queue, receiver_waker |-> c.receiver_waker,
          senders_waker |-> IF cx # NoCx THEN cx ELSE c.senders_waker,
          res |-> "Full", val |-> message, woken |-> <<>>]

\* mutant: a successful push leaves the consumer slot alone
try_send_with_context_no_wake(c, message, cx) ==
    IF Len(c.queue) < N
    THEN [queue |-> Append(c.queue, message),
          receiver_waker |-> c.receiver_waker,
          senders_waker |-> c.senders_waker, res |-> "Ok", val |-> NoMsg,
          woken |-> <<>>]
    ELSE [queue |-> c.queue, receiver_waker |-> c.receiver_waker,
          senders_waker |-> IF cx # NoCx THEN cx ELSE c.senders_waker,
          res |-> "Full", val |-> message, woken |-> <<>>]

\* mutant: a Full result does not register the context it was given
try_send_with_context_no_register(c, message, cx) ==
    LET p == push_back(c.queue, message) IN
    IF p.ok
    THEN LET w == wake(c.receiver_waker) IN
         [queue |-> p.q, receiver_waker |-> w.slot,
          senders_waker |-> c.senders_waker, res |-> "Ok", val |-> NoMsg,
          woken |-> w.woken]
    ELSE [queue |-> p.q, receiver_waker |-> c.receiver_waker,
          senders_waker |-> c.senders_waker, res |-> "Full", val |-> message,
          woken |-> <<>>]

\* mutant: the message is pushed at the front of the queue
try_send_with_context_push_front(c, message, cx) ==
    IF Len(c.queue) < N
    THEN [queue |-> <<message>> \o c.queue, receiver_waker |-> NoWaker,
          senders_waker |-> c.senders_waker, res |-> "Ok", val |-> NoMsg,
          woken |-> wake(c.receiver_waker).woken]
    ELSE [queue |-> c.queue, receiver_waker |-> c.receiver_waker,
          senders_waker |-> IF cx # NoCx THEN cx ELSE c.senders_waker,
          res |-> "Full", val |-> message, woken |-> <<>>]

\* mutant: a full queue drops its oldest message to take the new one
try_send_with_context_overwrite(c, message, cx) ==
    LET q == IF Len(c.queue) < N THEN c.queue ELSE Tail(c.queue) IN
    [queue |-> Append(q, message), receiver_waker |-> NoWaker,
     senders_waker |-> c.senders_waker, res |-> "Ok", val |-> NoMsg,
     woken |-> wake(c.receiver_waker).woken]

\* mutant: the capacity is not checked
try_send_with_context_unbounded(c, message, cx) ==
    [queue |-> Append(c.queue, message), receiver_waker |-> NoWaker,
     senders_waker |-> c.senders_waker, res |-> "Ok", val |-> NoMsg,
     woken |-> wake(c.receiver_waker).woken]

try_send_with_context(c, message, cx) ==
    LET p == push_back(c.queue, message) IN
    IF p.ok
    THEN LET w == wake(c.receiver_waker) IN
         [queue |-> p.q, receiver_waker |-> w.slot,
          senders_waker |-> c.senders_waker, res |-> "Ok", val |-> NoMsg,
          woken |-> w.woken]
    ELSE LET r == IF cx # NoCx THEN register(c.senders_waker, cx)
                  ELSE [slot |-> c.senders_waker, woken |-> <<>>] IN
         [queue |-> p.q, receiver_waker |-> c.receiver_waker,
          senders_waker |-> r.slot, res |-> "Full", val |-> message,
          woken |-> r.woken]

\* mutant: the producer is registered only when the queue is full
poll_ready_to_send_lazy(c, cx) ==
    [queue |-> c.queue, receiver_waker |-> c.receiver_waker,
     senders_waker |-> IF is_full(c.queue) THEN cx ELSE c.senders_waker,
     res |-> IF ~is_full(c.queue) THEN "Ready" ELSE "Pending",
     val |-> NoMsg, woken |-> <<>>]

poll_ready_to_send(c, cx) ==
    LET r == register(c.senders_waker, cx) IN
    [queue |-> c.queue, receiver_waker |-> c.receiver_waker,
     senders_waker |-> r.slot,
     res |-> IF ~is_full(c.queue) THEN "Ready" ELSE "Pending",
     val |-> NoMsg, woken |-> r.woken]

\* mutant: clear removes only the oldest message
clear_pops_front(c) ==
    LET w == WakeSendersIfFull(c) IN
    [queue |-> pop_front(c.queue).q, receiver_waker |-> c.receiver_waker,
     senders_waker |-> w.slot, res |-> "Unit", val |-> NoMsg,
     woken |-> w.woken]

\* mutant: clear empties the queue without waking the producer slot
clear_no_wake(c) ==
    [queue |-> <<>>, receiver_waker |-> c.receiver_waker,
     senders_waker |-> c.senders_waker, res |-> "Unit", val |-> NoMsg,
     woken |-> <<>>]

\* mutant: clear calls both wakers
clear_wakes_both(c) ==
    LET w == WakeSendersIfFull(c)
        v == wake(c.receiver_waker) IN
    [queue |-> <<>>, receiver_waker |-> v.slot,
     senders_waker |-> w.slot, res |-> "Unit", val |-> NoMsg,
     woken |-> w.woken \o v.woken]

\* ChannelState::clear: wake the producer slot if full, empty the queue
clear(c) ==
    LET w == WakeSendersIfFull(c) IN
    [queue |-> <<>>, receiver_waker |-> c.receiver_waker,
     senders_waker |-> w.slot, res |-> "Unit", val |-> NoMsg,
     woken |-> w.woken]

\* mutant: the immediate try_send registers its caller's context
try_send_registers(c, message) == try_send_with_context(c, message, "main")

\* ChannelState::try_send / try_receive / try_peek: no context
try_send(c, message) == try_send_with_context(c, message, NoCx)
try_receive(c) == try_receive_with_context(c, NoCx)
try_peek(c) == try_peek_with_context(c, NoCx)

\* ------------------------------------------------ static and dynamic views
\* Sender / Receiver call the Channel's methods; DynamicSender /
\* DynamicReceiver call the DynamicChannel methods, which impl DynamicChannel
\* for Channel forwards to the Channel's with-context methods.
Sender_try_send(c, message) == try_send(c, message)
DynamicSender_try_send(c, message) == try_send_with_context(c, message, NoCx)
Receiver_try_receive(c) == try_receive(c)
DynamicReceiver_try_receive(c) == try_receive_with_context(c, NoCx)
Receiver_try_peek(c) == try_peek(c)
DynamicReceiver_try_peek(c) == try_peek_with_context(c, NoCx)
\* ReceiveFuture::poll
ReceiveFuture_poll(c, cx) == poll_receive(c, cx)
\* DynamicReceiveFuture::poll: Ok(v) => Ready(v), Err(Empty) => Pending
DynamicReceiveFuture_poll(c, cx) ==
    LET r == try_receive_with_context(c, cx) IN
    [r EXCEPT !.res = IF r.res = "Ok" THEN "Ready" ELSE "Pending"]
\* the try_send inside SendFuture::poll and inside DynamicSendFuture::poll
SendFuture_try_send(c, message, cx) == try_send_with_context(c, message, cx)
DynamicSendFuture_try_send(c, message, cx) ==
    try_send_with_context(c, message, cx)

\* Channel accessors
capacity == N
len == Len(queue)
free_capacity == N - len
is_empty_ch == is_empty(queue)
is_full_ch == is_full(queue)

\* ------------------------------------------------------------------ futures
\* A task awaits at most one future of this channel at a time.  kind is the
\* operation awaited, message is SendFuture.message, state is what the last
\* poll returned ("none": no future).
NoFuture == [kind |-> "none", message |-> NoMsg, state |-> "none"]
\* no lock closure in progress
NoCall == [op |-> "none", message |-> NoMsg, phase |-> 0, res |-> "none",
           val |-> NoMsg]
Views == {"static", "dynamic"}

Woken(r) == {r.woken[i] : i \in 1..Len(r.woken)}

\* One lock closure: the ChannelState after the call, the wakers it called.
\* by is the task being polled (its wake flag was cleared when the poll began)
\* or ISR for a call made without a task context.
Commit(r, by) ==
    /\ queue' = r.queue
    /\ receiver_waker' = r.receiver_waker
    /\ senders_waker' = r.senders_waker
    /\ signalled' = [t \in Tasks |->
                       (t \in Woken(r)) \/ (t # by /\ signalled[t])]
    /\ UNCHANGED <<lock, inside>>

Init ==
    /\ N \in 1..MaxN
    /\ queue = <<>>
    /\ receiver_waker = NoWaker
    /\ senders_waker = NoWaker
    /\ fut = [t \in Tasks |-> NoFuture]
    /\ signalled = [t \in Tasks |-> FALSE]
    /\ nextMsg = 1
    /\ sent = <<>>
    /\ received = <<>>
    /\ discarded = {}
    /\ last = [op |-> "new", res |-> "Unit"]
    /\ lock = Unlocked
    /\ inside = [c \in Contexts |-> NoCall]

\* Channel::try_send(message), from any context
TrySend ==
    /\ nextMsg <= MaxMsgs
    /\ LET r == try_send(State, nextMsg) IN
       /\ Commit(r, ISR)
       /\ last' = [op |-> "try_send", res |-> r.res]
       /\ sent' = IF r.res = "Ok" THEN Append(sent, nextMsg) ELSE sent
    /\ nextMsg' = nextMsg + 1
    /\ UNCHANGED <<N, fut, received, discarded>>

\* Channel::try_receive()
TryReceive ==
    /\ LET r == try_receive(State) IN
       /\ Commit(r, ISR)
       /\ last' = [op |-> "try_receive", res |-> r.res]
       /\ received' = IF r.res = "Ok" THEN Append(received, r.val)
                      ELSE received
    /\ UNCHANGED <<N, fut, nextMsg, sent, discarded>>

\* Channel::try_peek()
TryPeek ==
    /\ LET r == try_peek(State) IN
       /\ Commit(r, ISR)
       /\ last' = [op |-> "try_peek", res |-> r.res]
    /\ UNCHANGED <<N, fut, nextMsg, sent, received, discarded>>

\* Channel::clear()
Clear ==
    /\ LET r == clear(State) IN
       /\ Commit(r, ISR)
       /\ last' = [op |-> "clear", res |-> r.res]
    /\ discarded' = discarded \cup {queue[i] : i \in 1..Len(queue)}
    /\ UNCHANGED <<N, fut, nextMsg, sent, received>>

\* mutant: a Full result completes the future instead of suspending it
SendFuture_poll_full_completes(t, f) ==
    IF f.message = NoMsg
    THEN /\ fut' = [fut EXCEPT ![t] = [f EXCEPT !.state = "panicked"]]
         /\ last' = [op |-> "SendFuture::poll", res |-> "Panic"]
         /\ signalled' = [signalled EXCEPT ![t] = FALSE]
         /\ UNCHANGED <<queue, receiver_waker, senders_waker, sent, lock,
                        inside>>
    ELSE LET r == try_send_with_context(State, f.message, t)
             ok == r.res = "Ok" IN
         /\ Commit(r, t)
         /\ fut' = [fut EXCEPT ![t] =
                      [f EXCEPT !.message = NoMsg, !.state = "Ready"]]
         /\ last' = [op |-> "SendFuture::poll", res |-> "Ready"]
         /\ sent' = IF ok THEN Append(sent, f.message) ELSE sent

\* mutant: the message stays in the future after it was accepted
SendFuture_poll_keeps_message(t, f) ==
    IF f.message = NoMsg
    THEN /\ fut' = [fut EXCEPT ![t] = [f EXCEPT !.state = "panicked"]]
         /\ last' = [op |-> "SendFuture::poll", res |-> "Panic"]
         /\ signalled' = [signalled EXCEPT ![t] = FALSE]
         /\ UNCHANGED <<queue, receiver_waker, senders_waker, sent, lock,
                        inside>>
    ELSE LET r == try_send_with_context(State, f.message, t)
             ok == r.res = "Ok" IN
         /\ Commit(r, t)
         /\ fut' = [fut EXCEPT ![t] =
                      [f EXCEPT !.state = IF ok THEN "Ready" ELSE "Pending"]]
         /\ last' = [op |-> "SendFuture::poll",
                     res |-> IF ok THEN "Ready" ELSE "Pending"]
         /\ sent' = IF ok THEN Append(sent, f.message) ELSE sent

\* mutant: a completed future polled again returns Ready once more
SendFuture_poll_repoll_ready(t, f) ==
    IF f.message = NoMsg
    THEN /\ fut' = [fut EXCEPT ![t] = [f EXCEPT !.state = "Ready"]]
         /\ last' = [op |-> "SendFuture::poll", res |-> "Ready"]
         /\ signalled' = [signalled EXCEPT ![t] = FALSE]
         /\ UNCHANGED <<queue, receiver_waker, senders_waker, sent, lock,
                        inside>>
    ELSE LET r == try_send_with_context(State, f.message, t)
             ok == r.res = "Ok" IN
         /\ Commit(r, t)
         /\ fut' = [fut EXCEPT ![t] =
                      [f EXCEPT !.message = IF ok THEN NoMsg ELSE r.val,
                                !.state = IF ok THEN "Ready" ELSE "Pending"]]
         /\ last' = [op |-> "SendFuture::poll",
                     res |-> IF ok THEN "Ready" ELSE "Pending"]
         /\ sent' = IF ok THEN Append(sent, f.message) ELSE sent

\* SendFuture::poll / DynamicSendFuture::poll of task t's future f
SendFuture_poll(t, f) ==
    IF f.message = NoMsg
    THEN \* None => panic!("Message cannot be None")
         /\ fut' = [fut EXCEPT ![t] = [f EXCEPT !.state = "panicked"]]
         /\ last' = [op |-> "SendFuture::poll", res |-> "Panic"]
         /\ signalled' = [signalled EXCEPT ![t] = FALSE]
         /\ UNCHANGED <<queue, receiver_waker, senders_waker, sent, lock,
                        inside>>
    ELSE LET r == try_send_with_context(State, f.message, t)
             ok == r.res = "Ok" IN
         /\ Commit(r, t)
         /\ fut' = [fut EXCEPT ![t] =
                      [f EXCEPT !.message = IF ok THEN NoMsg ELSE r.val,
                                !.state = IF ok THEN "Ready" ELSE "Pending"]]
         /\ last' = [op |-> "SendFuture::poll",
                     res |-> IF ok THEN "Ready" ELSE "Pending"]
         /\ sent' = IF ok THEN Append(sent, f.message) ELSE sent

\* c.send(message).await: Channel::send / DynamicSender::send builds the
\* future around Some(message), the await polls it
Send(t) ==
    /\ fut[t].state = "none"
    /\ nextMsg <= MaxMsgs
    /\ SendFuture_poll(t, [kind |-> "send", message |-> nextMsg,
                           state |-> "created"])
    /\ nextMsg' = nextMsg + 1
    /\ UNCHANGED <<N, received, discarded>>

\* the executor polls the send future again (woken or not); a future that
\* already returned Ready can be polled too
PollSend(t) ==
    /\ fut[t].kind = "send"
    /\ fut[t].state \in {"Pending", "Ready"}
    /\ SendFuture_poll(t, fut[t])
    /\ UNCHANGED <<N, nextMsg, received, discarded>>

\* ReceiveFuture::poll (poll_receive) / DynamicReceiveFuture::poll
\* (try_receive_with_context(Some(cx)), Ok => Ready, Empty => Pending);
\* c.receive().await and every later poll of it.  The future holds only the
\* channel reference: a completed one is dropped by the await.
PollReceive(t) ==
    /\ \/ fut[t].state = "none"
       \/ fut[t].kind = "receive" /\ fut[t].state = "Pending"
    /\ \E view \in Views :
         LET r == IF view = "static" THEN poll_receive(State, t)
                  ELSE try_receive_with_context(State, t)
             ok == r.res \in {"Ready", "Ok"} IN
         /\ Commit(r, t)
         /\ fut' = [fut EXCEPT ![t] =
                      IF ok THEN NoFuture
                      ELSE [kind |-> "receive", message |-> NoMsg,
                            state |-> "Pending"]]
         /\ last' = [op |-> "ReceiveFuture::poll",
                     res |-> IF ok THEN "Ready" ELSE "Pending"]
         /\ received' = IF ok THEN Append(received, r.val) ELSE received
    /\ UNCHANGED <<N, nextMsg, sent, discarded>>

\* ReceiveReadyFuture::poll: c.ready_to_receive().await and its later polls
PollReadyToReceive(t) ==
    /\ \/ fut[t].state = "none"
       \/ fut[t].kind = "ready_to_receive" /\ fut[t].state = "Pending"
    /\ LET r == poll_ready_to_receive(State, t) IN
       /\ Commit(r, t)
       /\ fut' = [fut EXCEPT ![t] =
                    IF r.res = "Ready" THEN NoFuture
                    ELSE [kind |-> "ready_to_receive", message |-> NoMsg,
                          state |-> "Pending"]]
       /\ last' = [op |-> "poll_ready_to_receive", res |-> r.res]
    /\ UNCHANGED <<N, nextMsg, sent, received, discarded>>

\* poll_fn(|cx| sender.poll_ready_to_send(cx)).await and its later polls
PollReadyToSend(t) ==
    /\ \/ fut[t].state = "none"
       \/ fut[t].kind = "ready_to_send" /\ fut[t].state = "Pending"
    /\ LET r == poll_ready_to_send(State, t) IN
       /\ Commit(r, t)
       /\ fut' = [fut EXCEPT ![t] =
                    IF r.res = "Ready" THEN NoFuture
                    ELSE [kind |-> "ready_to_send", message |-> NoMsg,
                          state |-> "Pending"]]
       /\ last' = [op |-> "poll_ready_to_send", res |-> r.res]
    /\ UNCHANGED <<N, nextMsg, sent, received, discarded>>

\* dropping a future (a completed send future, or cancelling a pending one):
\* there is no Drop impl, the channel is not touched and the message, if
\* still owned, goes with the future
Drop(t) ==
    /\ fut[t].state \in {"Pending", "Ready"}
    /\ fut' = [fut EXCEPT ![t] = NoFuture]
    /\ UNCHANGED <<N, queue, receiver_waker, senders_waker, signalled, nextMsg,
                   sent, received, discarded, last, lock, inside>>

Next ==
    \/ TrySend
    \/ TryReceive
    \/ TryPeek
    \/ Clear
    \/ \E t \in Spawned : Send(t)
    \/ \E t \in Spawned : PollSend(t)
    \/ \E t \in Spawned : PollReceive(t)
    \/ \E t \in Spawned : PollReadyToReceive(t)
    \/ \E t \in Spawned : PollReadyToSend(t)
    \/ \E t \in Spawned : Drop(t)

Spec == Init /\ [][Next]_vars

\* The executor polls again every continuation whose waker was called
\* (it need not poll one that was not).
Resume(t) ==
    /\ signalled[t]
    /\ fut[t].state = "Pending"
    /\ \/ PollSend(t)
       \/ PollReceive(t)
       \/ PollReadyToReceive(t)
       \/ PollReadyToSend(t)

\* Several tasks receive from a channel that an interrupt handler fills:
\* each receive().await is polled until it completes, a task may or may not
\* receive again, messages keep arriving and every signalled continuation
\* is polled again.
RecvNext ==
    \/ TrySend
    \/ \E t \in Spawned : PollReceive(t)

RecvSpec ==
    /\ Init
    /\ [][RecvNext]_vars
    /\ WF_vars(TrySend)
    /\ \A t \in Spawned : WF_vars(Resume(t))

\* tests::senders_sends_wait_until_capacity at the moment both spawned sends
\* are parked: messages 1..N went in by try_send and fill the channel, then
\* one spawned task polled send(N+1) and the other polled send(N+2); both
\* polls are try_send_with_context on the full queue.
ScenInit ==
    /\ N \in 1..MaxN
    /\ \E first \in Spawned : \E second \in Spawned \ {first} :
         LET c0 == [queue |-> [i \in 1..N |-> i], receiver_waker |-> NoWaker,
                    senders_waker |-> NoWaker]
             r1 == try_send_with_context(c0, N + 1, first)
             r2 == try_send_with_context(r1, N + 2, second)
         IN
         /\ r1.res = "Full" /\ r2.res = "Full"
         /\ queue = r2.queue
         /\ receiver_waker = r2.receiver_waker
         /\ senders_waker = r2.senders_waker
         /\ signalled = [t \in Tasks |->
                           \/ t \in Woken(r2)
                           \/ t \in Woken(r1) /\ t # second]
         /\ fut = [t \in Tasks |->
                     IF t = first
                     THEN [kind |-> "send", message |-> r1.val,
                           state |-> "Pending"]
                     ELSE IF t = second
                     THEN [kind |-> "send", message |-> r2.val,
                           state |-> "Pending"]
                     ELSE NoFuture]
    /\ sent = queue
    /\ received = <<>>
    /\ discarded = {}
    /\ nextMsg = N + 3
    /\ last = [op |-> "SendFuture::poll", res |-> "Pending"]
    /\ lock = Unlocked
    /\ inside = [c \in Contexts |-> NoCall]

\* a spawned task's send future is polled again (woken or not)
ScenPollSend(t) == fut[t].state = "Pending" /\ PollSend(t)
\* a spawned task ends once its send completed: the future is dropped
ScenFinish(t) == fut[t].state = "Ready" /\ Drop(t)
\* loop { c.receive().await }
ScenReceive == PollReceive("main")

ScenNext ==
    \/ \E t \in Spawned : ScenPollSend(t)
    \/ \E t \in Spawned : ScenFinish(t)
    \/ ScenReceive

\* the executor polls every signalled continuation again and the consumer
\* keeps receiving
ScenSpec ==
    /\ ScenInit
    /\ [][ScenNext]_vars
    /\ \A t \in Spawned : WF_vars(signalled[t] /\ ScenPollSend(t))
    /\ WF_vars(ScenReceive)

\* ------------------------------------------------------- the lock closures
\* Channel::lock(f) = self.inner.lock(|rc| f(&mut *rc.try_borrow_mut())).
\* Here a lock closure is not one step: a context enters the Mutex, runs the
\* queue part of the ChannelState method, then its waker part, then leaves.
\* An interrupt handler can start between any two steps of a task and runs to
\* completion; the executor polls one task at a time.

\* mutant: the Mutex excludes nobody
Mutex_can_enter_unguarded(l, ctx) == TRUE
\* mutant: the Mutex stays held after the closure returned
Mutex_leave_held(l, ctx) == l
\* Mutex::lock lets a context in only while nobody is inside (the raw mutex
\* is a critical section, or excludes other contexts by construction)
Mutex_can_enter(l, ctx) == l = Unlocked
\* and is released when the closure returns
Mutex_leave(l, ctx) == Unlocked

LockReceiver == "t1"     \* the task that receives
LockSender == "t2"       \* the task that sends

\* the context calls self.lock(|c| c.op(..)) and gets in
Enter(ctx, op, message) ==
    /\ inside[ctx] = NoCall
    /\ Mutex_can_enter(lock, ctx)
    /\ lock' = ctx
    /\ inside' = [inside EXCEPT ![ctx] =
                    [op |-> op, message |-> message, phase |-> 1,
                     res |-> "none", val |-> NoMsg]]

\* an interrupt handler calls Channel::try_send(message)
IsrTrySend ==
    /\ nextMsg <= MaxMsgs
    /\ Enter(ISR, "try_send", nextMsg)
    /\ nextMsg' = nextMsg + 1
    /\ UNCHANGED <<N, queue, receiver_waker, senders_waker, fut, signalled,
                   sent, received, discarded, last>>

\* the executor polls task t's ReceiveFuture: Channel::poll_receive(cx)
ReceiveFuture_enter(t) ==
    /\ \A u \in Tasks : fut[u].state # "polling"
    /\ \/ fut[t].state = "none"
       \/ fut[t].kind = "receive" /\ fut[t].state = "Pending"
    /\ Enter(t, "poll_receive", NoMsg)
    /\ fut' = [fut EXCEPT ![t] = [kind |-> "receive", message |-> NoMsg,
                                  state |-> "polling"]]
    /\ signalled' = [signalled EXCEPT ![t] = FALSE]
    /\ UNCHANGED <<N, queue, receiver_waker, senders_waker, nextMsg, sent,
                   received, discarded, last>>

\* the executor polls task t's SendFuture: message.take(), then
\* Channel::try_send_with_context(m, Some(cx))
SendFuture_enter(t) ==
    /\ \A u \in Tasks : fut[u].state # "polling"
    /\ \/ /\ fut[t].state = "none"
          /\ nextMsg <= MaxMsgs
          /\ Enter(t, "try_send_with_context", nextMsg)
          /\ nextMsg' = nextMsg + 1
       \/ /\ fut[t].kind = "send" /\ fut[t].state = "Pending"
          /\ Enter(t, "try_send_with_context", fut[t].message)
          /\ nextMsg' = nextMsg
    /\ fut' = [fut EXCEPT ![t] = [kind |-> "send", message |-> NoMsg,
                                  state |-> "polling"]]
    /\ signalled' = [signalled EXCEPT ![t] = FALSE]
    /\ UNCHANGED <<N, queue, receiver_waker, senders_waker, sent, received,
                   discarded, last>>

\* a task runs only while no interrupt handler is running
Runs(ctx) == ctx \in Tasks => inside[ISR] = NoCall

\* the queue part of the closure.  poll_receive: if is_full { senders_waker
\* .wake() }, then pop_front.  try_send_with_context: push_back.
Closure_queue(ctx) ==
    /\ inside[ctx].phase = 1
    /\ Runs(ctx)
    /\ IF inside[ctx].op = "poll_receive"
       THEN LET w == WakeSendersIfFull(State)
                p == pop_front(queue) IN
            /\ queue' = p.q
            /\ senders_waker' = w.slot
            /\ signalled' = [t \in Tasks |->
                               signalled[t] \/ t \in Woken(w)]
            /\ received' = IF p.some THEN Append(received, p.v) ELSE received
            /\ inside' = [inside EXCEPT ![ctx].phase = 2,
                            ![ctx].res = IF p.some THEN "Ready" ELSE "Pending",
                            ![ctx].val = p.v]
            /\ UNCHANGED sent
       ELSE LET p == push_back(queue, inside[ctx].message) IN
            /\ queue' = p.q
            /\ sent' = IF p.ok THEN Append(sent, inside[ctx].message) ELSE sent
            /\ inside' = [inside EXCEPT ![ctx].phase = 2,
                            ![ctx].res = IF p.ok THEN "Ok" ELSE "Full"]
            /\ UNCHANGED <<senders_waker, signalled, received>>
    /\ UNCHANGED <<N, receiver_waker, fut, nextMsg, discarded, last, lock>>

\* the waker part of the closure.  poll_receive: register the receiver when
\* nothing was popped.  try_send_with_context: wake the receiver after a
\* push, register the sender (if a context was given) after a Full.
Closure_wakers(ctx) ==
    /\ inside[ctx].phase = 2
    /\ Runs(ctx)
    /\ LET c == inside[ctx]
           keep == [slot |-> NoWaker, woken |-> <<>>]
           rw == IF c.op = "poll_receive" /\ c.res = "Pending"
                 THEN register(receiver_waker, ctx)
                 ELSE IF c.res = "Ok" THEN wake(receiver_waker)
                 ELSE [keep EXCEPT !.slot = receiver_waker]
           sw == IF c.res = "Full" /\ ctx # ISR
                 THEN register(senders_waker, ctx)
                 ELSE [keep EXCEPT !.slot = senders_waker] IN
       /\ receiver_waker' = rw.slot
       /\ senders_waker' = sw.slot
       /\ signalled' = [t \in Tasks |->
                          signalled[t] \/ t \in Woken(rw) \/ t \in Woken(sw)]
    /\ inside' = [inside EXCEPT ![ctx].phase = 3]
    /\ UNCHANGED <<N, queue, fut, nextMsg, sent, received, discarded, last,
                   lock>>

\* the closure returns, the Mutex is released and the caller gets the result:
\* a poll returns Ready or Pending (Full: self.message = Some(m)), a completed
\* future is dropped by its task
Leave(ctx) ==
    /\ inside[ctx].phase = 3
    /\ Runs(ctx)
    /\ lock' = Mutex_leave(lock, ctx)
    /\ inside' = [inside EXCEPT ![ctx] = NoCall]
    /\ LET c == inside[ctx]
           done == c.res \in {"Ready", "Ok"} IN
       /\ fut' = IF ctx = ISR THEN fut
                 ELSE [fut EXCEPT ![ctx] =
                         IF done THEN NoFuture
                         ELSE [kind |-> fut[ctx].kind, message |-> c.message,
                               state |-> "Pending"]]
       /\ last' = IF ctx = ISR THEN [op |-> "try_send", res |-> c.res]
                  ELSE [op |-> IF c.op = "poll_receive"
                               THEN "ReceiveFuture::poll"
                               ELSE "SendFuture::poll",
                        res |-> IF done THEN "Ready" ELSE "Pending"]
    /\ UNCHANGED <<N, queue, receiver_waker, senders_waker, signalled,
                   nextMsg, sent, received, discarded>>

LockNext ==
    \/ IsrTrySend
    \/ ReceiveFuture_enter(LockReceiver)
    \/ SendFuture_enter(LockSender)
    \/ \E ctx \in Contexts : Closure_queue(ctx)
    \/ \E ctx \in Contexts : Closure_wakers(ctx)
    \/ \E ctx \in Contexts : Leave(ctx)

LockSpec == Init /\ [][LockNext]_vars

\* ------------------------------------------------------------------ helpers
Range(q) == {q[i] : i \in 1..Len(q)}
IsPrefix(p, q) == Len(p) <= Len(q) /\ \A i \in 1..Len(p) : p[i] = q[i]
Msgs == 1..MaxMsgs
\* position of an accepted message in the order of acceptance
Pos(m) == CHOOSE i \in 1..Len(sent) : sent[i] = m
SendPending(t) == fut[t].kind = "send" /\ fut[t].state = "Pending"
ReceivePending(t) == fut[t].kind = "receive" /\ fut[t].state = "Pending"

\* ------------------------------------------------------------------- claims

\* C1: without clear, the values returned by successful receives are, in
\* order, a prefix of the values accepted by successful sends (FIFO).
C1_FifoPrefix == discarded = {} => IsPrefix(received, sent)

C1_Witness ==
    /\ discarded = {}
    /\ N = 2
    /\ Len(received) = 2
    /\ Len(sent) = 3
    /\ last = [op |-> "try_receive", res |-> "Ok"]

\* C2: receive is competitive: no message is returned by two receive
\* operations, every returned message was accepted, and a returned message
\* is no longer in the queue.
C2_Competitive ==
    /\ \A i, j \in 1..Len(received) : i # j => received[i] # received[j]
    /\ Range(received) \subseteq Range(sent)
    /\ Range(received) \cap Range(queue) = {}
    /\ \A i, j \in 1..Len(queue) : i # j => queue[i] # queue[j]

C2_Witness ==
    /\ Len(received) = 2
    /\ last = [op |-> "ReceiveFuture::poll", res |-> "Ready"]
    /\ \E t \in Spawned : ReceivePending(t)

\* C3: while the queue holds fewer than N messages try_send succeeds and
\* appends the message (so N try_sends on an empty channel all succeed);
\* while it holds N, try_send returns Full with the message passed in and
\* leaves the queue as it was.
C3_SendWhenFull ==
    /\ \A m \in Msgs :
         LET r == try_send(State, m) IN
         IF Len(queue) < N
         THEN r.res = "Ok" /\ r.queue = Append(queue, m)
         ELSE r.res = "Full" /\ r.val = m /\ r.queue = queue
    /\ (last = [op |-> "try_send", res |-> "Full"]) => Len(queue) = N
    /\ (last = [op |-> "try_send", res |-> "Ok"]) =>
           Len(queue) > 0 /\ queue[Len(queue)] = sent[Len(sent)]

C3_Witness ==
    /\ N = MaxN
    /\ sent = [i \in 1..N |-> i]
    /\ queue = sent
    /\ nextMsg = N + 2
    /\ \A t \in Tasks : fut[t] = NoFuture
    /\ last = [op |-> "try_send", res |-> "Full"]

\* C4: on an empty queue try_receive and try_peek return Empty and leave the
\* queue empty (free capacity N); on a non-empty queue try_receive returns
\* the oldest accepted message still queued and shortens the queue by one.
C4_ReceiveWhenEmpty ==
    LET r == try_receive(State)
        p == try_peek(State) IN
    IF Len(queue) = 0
    THEN /\ r.res = "Empty" /\ r.queue = <<>>
         /\ p.res = "Empty" /\ p.queue = <<>>
         /\ free_capacity = N
         /\ (last.op \in {"try_receive", "try_peek"} => last.res # "Full")
    ELSE /\ r.res = "Ok"
         /\ r.val \in Range(queue)
         /\ \A m \in Range(queue) : Pos(r.val) <= Pos(m)
         /\ Len(r.queue) = Len(queue) - 1
         /\ Range(r.queue) = Range(queue) \ {r.val}

C4_Witness ==
    /\ last = [op |-> "try_receive", res |-> "Empty"]
    /\ Len(received) >= 1
    /\ Len(queue) = 0

\* C5: 0 <= len <= N, len + free_capacity = N, is_empty iff len = 0, is_full
\* iff len = N, and a successful try_send makes len one larger.
C5_LenBounds ==
    /\ len \in 0..N
    /\ len + free_capacity = N
    /\ is_empty_ch <=> (len = 0)
    /\ is_full_ch <=> (len = N)
    /\ capacity = N
    /\ \A m \in Msgs :
         LET r == try_send(State, m) IN
         r.res = "Ok" => Len(r.queue) = len + 1
    /\ Len(sent) = Len(received) + len + Cardinality(discarded)

C5_Witness ==
    /\ N = MaxN
    /\ is_full_ch
    /\ last = [op |-> "try_send", res |-> "Ok"]
    /\ Len(received) >= 1

\* a step in which the queue accepted a message / a receive returned one
SendAccepted == Len(sent') = Len(sent) + 1
ReceiveSucceeded == Len(received') = Len(received) + 1

\* C6: a receive continuation whose poll returned Pending is woken by any
\* subsequent successful send.
C6_ReceiverWokenBySend ==
    [][SendAccepted =>
         \A t \in Tasks : ReceivePending(t) => signalled'[t]]_vars

\* C7: a send continuation whose poll returned Pending is woken by any
\* subsequent successful receive.
C7_SenderWokenByReceive ==
    [][ReceiveSucceeded =>
         \A t \in Tasks : SendPending(t) => signalled'[t]]_vars

\* C8: two send continuations parked on a full capacity-1 channel both
\* complete while the consumer keeps receiving.
SendDone(t) == fut[t].kind # "send" \/ fut[t].state = "Ready"
C8_BothSendersComplete == (N = 1) => <>(\A t \in Spawned : SendDone(t))

\* C9 as stated: on the capacity-1 channel the consumer receives 1, then 2
\* (the first parked send), then 3 (the second parked send).
C9_ParkOrder == (N = 1) => IsPrefix(received, <<1, 2, 3>>)

\* the scenario starts in a state the channel reaches: full by try_send,
\* then two first polls of send futures
ScenStart ==
    /\ queue = [i \in 1..N |-> i]
    /\ sent = queue
    /\ received = <<>>
    /\ senders_waker \in Spawned
    /\ \A t \in Spawned : SendPending(t) /\ ~signalled[t]
    /\ \E t \in Spawned : fut[t].message = N + 1 /\ senders_waker # t

\* C9 amended: the consumer receives 1 first and then the parked messages in
\* the order in which their sends were accepted, 2 then 3 or 3 then 2; a
\* receive that finds the queue full signals the send registered in the
\* producer slot (the one whose poll returned Pending last) and no other.
C9_PublicationOrder ==
    [][(N = 1) =>
         /\ IsPrefix(received', sent')
         /\ \/ IsPrefix(received', <<1, 2, 3>>)
            \/ IsPrefix(received', <<1, 3, 2>>)
         /\ (ReceiveSucceeded /\ is_full(queue)) =>
              /\ senders_waker' = NoWaker
              /\ \A t \in Spawned :
                   signalled'[t] = (signalled[t] \/ t = senders_waker)]_vars

C9_Witness ==
    /\ N = 1
    /\ received = <<1, 3>>
    /\ \E t \in Spawned : SendPending(t) /\ fut[t].message = 2 /\ ~signalled[t]
    /\ senders_waker = NoWaker

\* C10: several receive continuations suspended on the empty channel never
\* end in a permanent stall: the queue non-empty for ever, a receive
\* continuation Pending for ever, and no receiver signalled or registered.
Stalled ==
    /\ queue # <<>>
    /\ receiver_waker = NoWaker
    /\ \E t \in Tasks : ReceivePending(t)
    /\ \A t \in Tasks : ReceivePending(t) => ~signalled[t]
C10_NoPermanentStall == ~<>[]Stalled

\* the ChannelState a call leaves behind
After(r) == [queue |-> r.queue, receiver_waker |-> r.receiver_waker,
             senders_waker |-> r.senders_waker]

\* C11: try_peek returns a copy of the oldest message and leaves the queue
\* as it was; a second try_peek returns the same value and the try_receive
\* that follows returns it too and removes it.
C11_PeekIdempotent ==
    LET p1 == try_peek(State)
        p2 == try_peek(After(p1))
        r == try_receive(After(p2)) IN
    /\ p1.queue = queue /\ p2.queue = queue
    /\ p2.res = p1.res /\ p2.val = p1.val
    /\ IF Len(queue) = 0
       THEN p1.res = "Empty" /\ r.res = "Empty"
       ELSE /\ p1.res = "Ok" /\ p1.val = Head(queue)
            /\ r.res = "Ok" /\ r.val = p1.val
            /\ r.queue = Tail(queue)
    /\ (last = [op |-> "try_peek", res |-> "Ok"]) => Len(queue) > 0
    /\ (last = [op |-> "try_peek", res |-> "Empty"]) => Len(queue) = 0

C11_Witness ==
    /\ last = [op |-> "try_peek", res |-> "Ok"]
    /\ N = MaxN
    /\ is_full_ch
    /\ senders_waker = NoWaker
    /\ \E t \in Spawned : SendPending(t) /\ signalled[t]

\* C12: after clear() the queue is empty and every send continuation that
\* was parked and not yet signalled has been signalled by the clear.
C12_ClearSignalsParked ==
    [][Clear =>
         /\ Len(queue') = 0
         /\ \A t \in Tasks :
              (SendPending(t) /\ ~signalled[t]) => signalled'[t]]_vars

\* the step is the poll of a send future / of a receive future
SendPolled == last'.op = "SendFuture::poll"
ReceivePolled == last'.op = "ReceiveFuture::poll"

\* C13: a send continuation that still holds its message, polled on a queue
\* of N messages, returns Pending and leaves the queue as it was; it returns
\* Ready only at a poll that finds fewer than N messages, and then appends
\* its message.  A receive continuation polled on an empty queue returns
\* Pending, and returns Ready only at a poll that finds a message, which it
\* takes from the head.  The queue never holds more than N messages.
C13_Backpressure ==
    [][/\ Len(queue') <= N
       /\ \A t \in Spawned :
            /\ (SendPolled /\ (Send(t) \/ (SendPending(t) /\ PollSend(t)))) =>
                 IF Len(queue) = N
                 THEN /\ last' = [op |-> "SendFuture::poll", res |-> "Pending"]
                      /\ SendPending(t)'
                      /\ queue' = queue /\ sent' = sent
                 ELSE /\ last' = [op |-> "SendFuture::poll", res |-> "Ready"]
                      /\ fut'[t].state = "Ready"
                      /\ Len(queue') = Len(queue) + 1
                      /\ queue'[Len(queue')] = sent'[Len(sent')]
            /\ (ReceivePolled /\ PollReceive(t)) =>
                 IF Len(queue) = 0
                 THEN /\ last' = [op |-> "ReceiveFuture::poll",
                                  res |-> "Pending"]
                      /\ ReceivePending(t)'
                      /\ queue' = queue /\ received' = received
                 ELSE /\ last' = [op |-> "ReceiveFuture::poll",
                                  res |-> "Ready"]
                      /\ received' = Append(received, Head(queue))
                      /\ queue' = Tail(queue)]_vars

C13_Witness ==
    /\ is_full_ch
    /\ Len(received) >= 1
    /\ last = [op |-> "SendFuture::poll", res |-> "Pending"]
    /\ \E t \in Spawned : SendPending(t) /\ fut[t].message = MaxMsgs
    /\ \E t \in Spawned : ReceivePending(t)

\* the messages still owned by send continuations
Held == {fut[t].message : t \in Tasks} \ {NoMsg}

\* C14: the message of a send continuation is in one place: in the
\* continuation until a poll returns Ready, in the queue's history exactly
\* once from then on.  A poll that returns Pending leaves the message in the
\* continuation, a poll that returns Ready moves it to the back of the
\* queue, dropping a continuation touches neither the queue nor its history
\* (so a message dropped with its continuation never appears), and a message
\* enters the queue only from try_send or from the continuation that holds
\* it.
C14_MessageInOnePlace ==
    [][/\ (sent' # sent \/ fut' # fut) =>
            /\ \A i, j \in 1..Len(sent') : i # j => sent'[i] # sent'[j]
            /\ Held' \cap Range(sent') = {}
            /\ \A t1, t2 \in Tasks :
                 (t1 # t2 /\ fut'[t1].message # NoMsg) =>
                     fut'[t1].message # fut'[t2].message
            /\ Range(sent') \ Range(sent) \subseteq Held \cup {nextMsg}
       /\ \A t \in Tasks :
            /\ (SendPolled /\ SendPending(t) /\ PollSend(t)) =>
                 /\ fut[t].message # NoMsg
                 /\ IF fut'[t].state = "Ready"
                    THEN /\ fut'[t].message = NoMsg
                         /\ sent' = Append(sent, fut[t].message)
                         /\ queue' = Append(queue, fut[t].message)
                    ELSE /\ fut'[t].message = fut[t].message
                         /\ sent' = sent /\ queue' = queue
            /\ (SendPolled /\ Send(t)) =>
                 IF fut'[t].state = "Ready"
                 THEN /\ fut'[t].message = NoMsg
                      /\ sent' = Append(sent, nextMsg)
                      /\ queue' = Append(queue, nextMsg)
                 ELSE /\ fut'[t].message = nextMsg
                      /\ sent' = sent /\ queue' = queue
            /\ (fut'[t] = NoFuture /\ Drop(t)) =>
                 /\ sent' = sent /\ queue' = queue
                 /\ fut[t].message \notin Range(sent')
                 /\ fut[t].message \notin Held']_vars

\* a send continuation was dropped after its poll returned Pending
C14_Witness ==
    /\ last = [op |-> "SendFuture::poll", res |-> "Pending"]
    /\ \A t \in Tasks : ~SendPending(t)
    /\ is_full_ch
    /\ queue = sent
    /\ nextMsg = N + 2

\* C15: a send continuation polled again after one of its polls returned
\* Ready panics; nothing is enqueued and the queue and both waker slots stay
\* as they were.  A continuation panics in no other case.
C15_RepollPanics ==
    [][\A t \in Tasks :
         /\ (fut[t].kind = "send" /\ fut[t].state = "Ready" /\ PollSend(t)) =>
              /\ fut'[t].state = "panicked"
              /\ last' = [op |-> "SendFuture::poll", res |-> "Panic"]
              /\ queue' = queue /\ sent' = sent
              /\ receiver_waker' = receiver_waker
              /\ senders_waker' = senders_waker
         /\ (fut'[t].state = "panicked" /\ fut[t].state # "panicked") =>
              fut[t].kind = "send" /\ fut[t].state = "Ready"]_vars

C15_Witness ==
    /\ \E t \in Spawned : fut[t].kind = "send" /\ fut[t].state = "panicked"
    /\ last = [op |-> "SendFuture::poll", res |-> "Panic"]
    /\ is_full_ch
    /\ receiver_waker # NoWaker
    /\ senders_waker # NoWaker

\* C16: on every channel state each operation of a dynamic view (with every
\* task context and every message that can be sent in that state) returns
\* the same result, leaves the same queue and waker slots and calls the same
\* wakers as the operation of the static view.
C16_DynamicEquivalent ==
    LET sendable == Held \cup {nextMsg} IN
    /\ Receiver_try_receive(State) = DynamicReceiver_try_receive(State)
    /\ Receiver_try_peek(State) = DynamicReceiver_try_peek(State)
    /\ \A m \in sendable :
         Sender_try_send(State, m) = DynamicSender_try_send(State, m)
    /\ \A cx \in Spawned :
         /\ ReceiveFuture_poll(State, cx) = DynamicReceiveFuture_poll(State, cx)
         /\ \A m \in sendable :
              SendFuture_try_send(State, m, cx) =
                  DynamicSendFuture_try_send(State, m, cx)

\* a receive continuation's poll found the queue full and woke a sender
C16_Witness ==
    /\ last = [op |-> "ReceiveFuture::poll", res |-> "Ready"]
    /\ \E t \in Spawned : SendPending(t) /\ signalled[t]
    /\ senders_waker = NoWaker
    /\ Len(queue) = N - 1

\* C17: the message of a completed send is in the queue, behind the
\* messages queued before it: right after the Ready poll it is the last
\* element, and when the channel was empty before it is what the next
\* receive returns.  Every accepted message is received, still queued or
\* was removed by clear(); the queue holds the accepted messages that are
\* left, in the order of acceptance, so each is returned after the ones
\* queued before it.
C17_SendObservable ==
    /\ Range(sent) = Range(received) \cup Range(queue) \cup discarded
    /\ Range(received) \cap discarded = {}
    /\ Range(queue) \cap discarded = {}
    /\ Range(queue) \cap Range(received) = {}
    /\ \A i, j \in 1..Len(queue) : i < j => Pos(queue[i]) < Pos(queue[j])
    /\ \A i, j \in 1..Len(received) :
         i < j => Pos(received[i]) < Pos(received[j])
    /\ \A m \in Range(received) \cup discarded :
         \A q \in Range(queue) : Pos(m) < Pos(q)
    /\ (last = [op |-> "SendFuture::poll", res |-> "Ready"]) =>
         /\ Len(queue) > 0
         /\ queue[Len(queue)] = sent[Len(sent)]
         /\ Len(queue) = 1 =>
              /\ try_receive(State).res = "Ok"
              /\ try_receive(State).val = sent[Len(sent)]
              /\ \A cx \in Tasks :
                   /\ poll_receive(State, cx).res = "Ready"
                   /\ poll_receive(State, cx).val = sent[Len(sent)]

\* a send completed on a channel that a receive had emptied
C17_Witness ==
    /\ last = [op |-> "SendFuture::poll", res |-> "Ready"]
    /\ Len(queue) = 1
    /\ Len(received) >= 1
    /\ discarded = {}
    /\ \E t \in Spawned : fut[t].kind = "send" /\ fut[t].state = "Ready"

\* C18 as stated: whenever some continuation is Pending the lock is free.
C18_LockFreeWhilePending ==
    (\E t \in Tasks : fut[t].state = "Pending") => lock = Unlocked

\* C18 amended: the lock is never held by, or on behalf of, a suspended
\* continuation: a continuation whose poll returned Pending is outside the
\* lock, which it entered and left within that poll.  The lock is held by
\* exactly the one context that is running a closure, and the queue and the
\* waker slots change only in steps of the context that holds it.
C18_LockNotHeldAcrossSuspension ==
    [][/\ \A t \in Tasks :
            fut'[t].state \in {"Pending", "none"} =>
                lock' # t /\ inside'[t] = NoCall
       /\ \A c \in Contexts : (inside'[c] # NoCall) <=> (lock' = c)
       /\ (<<queue, receiver_waker, senders_waker>>' #
             <<queue, receiver_waker, senders_waker>>) =>
            /\ lock \in Contexts
            /\ lock' = lock
            /\ inside[lock].phase \in {1, 2}
            /\ \A c \in Contexts \ {lock} : inside'[c] = inside[c]]_vars

\* an interrupt handler is inside the lock, has pushed its message, and a
\* suspended receive continuation is still registered
C18_Witness ==
    /\ fut[LockReceiver] = [kind |-> "receive", message |-> NoMsg,
                            state |-> "Pending"]
    /\ lock = ISR
    /\ inside[ISR].phase = 2
    /\ queue # <<>>
    /\ receiver_waker = LockReceiver

\* C19: the emptiness check and the registration of a receive poll are one
\* critical section, so a try_send from an interrupt handler comes before or
\* after it: with one receiver, the queue is never non-empty while the
\* receiver's continuation is Pending, unregistered and unsignalled, and
\* once the lock is free a Pending receiver facing a non-empty queue has
\* been signalled.
C19_NoLostWakeup ==
    LET t == LockReceiver
        parked == fut[t].kind = "receive" /\ fut[t].state = "Pending" IN
    /\ (queue # <<>> /\ parked) => (receiver_waker = t \/ signalled[t])
    /\ (queue # <<>> /\ parked /\ lock = Unlocked) => signalled[t]
    /\ (inside[t].phase = 3 /\ inside[t].op = "poll_receive"
          /\ inside[t].res = "Pending") =>
           (queue = <<>> /\ receiver_waker = t)

\* the interrupt handler's try_send found the receiver registered and woke it
C19_Witness ==
    /\ fut[LockReceiver] = [kind |-> "receive", message |-> NoMsg,
                            state |-> "Pending"]
    /\ signalled[LockReceiver]
    /\ receiver_waker = NoWaker
    /\ queue # <<>>
    /\ lock = Unlocked
    /\ last = [op |-> "try_send", res |-> "Ok"]

\* a step that is a try_send: Channel::try_send or the poll of a send
\* future that holds its message
TrySendStep ==
    \/ TrySend
    \/ \E t \in Spawned : Send(t) \/ (SendPending(t) /\ PollSend(t))

\* C20: when a try_send succeeds, in particular when it makes an empty queue
\* non-empty, the handle in the consumer slot has been signalled and the
\* slot is empty when the operation returns; a try_send that fails with Full
\* leaves the consumer slot as it was and signals no receiver.
C20_SendSignalsConsumer ==
    [][(last'.op \in {"try_send", "SendFuture::poll"} /\ TrySendStep) =>
         IF SendAccepted
         THEN /\ receiver_waker' = NoWaker
              /\ receiver_waker \in Tasks => signalled'[receiver_waker]
              /\ senders_waker' = senders_waker
         ELSE /\ receiver_waker' = receiver_waker
              /\ queue' = queue
              /\ \A t \in Tasks : signalled'[t] => signalled[t]]_vars

\* a try_send made the empty queue non-empty and woke the parked receiver
C20_Witness ==
    /\ Len(queue) = 1
    /\ Len(sent) = Len(received) + 1
    /\ discarded = {}
    /\ last = [op |-> "try_send", res |-> "Ok"]
    /\ receiver_waker = NoWaker
    /\ \E t \in Spawned : ReceivePending(t) /\ signalled[t]

\* a step that is a receive: Channel::try_receive or the poll of a receive
\* future (poll_receive, or try_receive_with_context behind a dynamic view)
ReceiveStep ==
    /\ last'.op \in {"try_receive", "ReceiveFuture::poll"}
    /\ TryReceive \/ \E t \in Spawned : PollReceive(t)

\* C21: a receive entered while the queue holds N messages signals the
\* handle in the producer slot, leaves the slot empty and dequeues the
\* oldest message; a receive entered on a queue that is not full leaves the
\* producer slot as it was and signals no one.
C21_ReceiveSignalsProducer ==
    [][ReceiveStep =>
         IF Len(queue) = N
         THEN /\ senders_waker' = NoWaker
              /\ senders_waker \in Tasks => signalled'[senders_waker]
              /\ queue' = Tail(queue)
              /\ received' = Append(received, Head(queue))
         ELSE /\ senders_waker' = senders_waker
              /\ \A t \in Tasks : signalled'[t] => signalled[t]]_vars

\* try_receive took the oldest of N messages and woke the parked sender
C21_Witness ==
    /\ N = MaxN
    /\ Len(queue) = N - 1
    /\ received = <<1>>
    /\ last = [op |-> "try_receive", res |-> "Ok"]
    /\ senders_waker = NoWaker
    /\ \E t \in Spawned : SendPending(t) /\ signalled[t]

\* C22: poll_ready_to_receive puts the caller in the consumer slot whatever
\* it returns, returns Ready exactly when the queue is non-empty, and
\* leaves the queue, the histories and the producer slot as they were.
C22_ReadyToReceive ==
    [][\A t \in Spawned :
         (last'.op = "poll_ready_to_receive" /\ PollReadyToReceive(t)) =>
            /\ receiver_waker' = t
            /\ (last'.res = "Ready") <=> (Len(queue) > 0)
            /\ last'.res \in {"Ready", "Pending"}
            /\ queue' = queue /\ received' = received /\ sent' = sent
            /\ senders_waker' = senders_waker]_vars

\* the poll returned Ready and the caller is registered all the same
C22_Witness ==
    /\ last = [op |-> "poll_ready_to_receive", res |-> "Ready"]
    /\ receiver_waker \in Spawned
    /\ fut[receiver_waker] = NoFuture
    /\ is_full_ch
    /\ senders_waker \in Spawned

\* C23: poll_ready_to_send puts the caller in the producer slot whatever it
\* returns, returns Ready exactly when the queue holds fewer than N
\* messages, and leaves the queue, the histories and the consumer slot as
\* they were.
C23_ReadyToSend ==
    [][\A t \in Spawned :
         (last'.op = "poll_ready_to_send" /\ PollReadyToSend(t)) =>
            /\ senders_waker' = t
            /\ (last'.res = "Ready") <=> (Len(queue) < N)
            /\ last'.res \in {"Ready", "Pending"}
            /\ queue' = queue /\ received' = received /\ sent' = sent
            /\ receiver_waker' = receiver_waker]_vars

\* the poll returned Ready and the caller is registered all the same
C23_Witness ==
    /\ last = [op |-> "poll_ready_to_send", res |-> "Ready"]
    /\ senders_waker \in Spawned
    /\ fut[senders_waker] = NoFuture
    /\ is_empty_ch
    /\ receiver_waker \in Spawned

\* the ChannelState after the step
StateAfter == [queue |-> queue', receiver_waker |-> receiver_waker',
               senders_waker |-> senders_waker']

\* C24: try_peek on a queue of N messages signals the handle in the
\* producer slot and leaves the slot empty although the queue keeps its N
\* messages.  The wake is harmless: the poll of the woken send continuation
\* in the state the peek left returns Pending, leaves the queue as it was
\* and puts the continuation back in the producer slot, so the channel is as
\* before the peek and the next receive signals the continuation.
C24_PeekWakeHarmless ==
    [][(last'.op = "try_peek" /\ TryPeek /\ is_full(queue)) =>
         /\ queue' = queue
         /\ senders_waker' = NoWaker
         /\ receiver_waker' = receiver_waker
         /\ \A t \in Tasks :
              (senders_waker = t) =>
                 /\ signalled'[t]
                 /\ SendPending(t) =>
                      LET p == try_send_with_context(StateAfter,
                                                     fut[t].message, t)
                          r == try_receive(After(p)) IN
                      /\ p.res = "Full" /\ p.val = fut[t].message
                      /\ After(p) = State
                      /\ r.res = "Ok" /\ t \in Woken(r)]_vars

\* a peek at the full capacity-1 channel woke the registered sender
C24_Witness ==
    /\ N = 1
    /\ last = [op |-> "try_peek", res |-> "Ok"]
    /\ is_full_ch
    /\ senders_waker = NoWaker
    /\ \E t \in Spawned : SendPending(t) /\ signalled[t]
    /\ \E t \in Spawned : SendPending(t) /\ ~signalled[t]

\* C25: the immediate operations register nothing.  A try_send that returns
\* Full changes neither waker slot nor the queue and signals nobody; a
\* try_receive or try_peek that returns Empty likewise; and no try_send,
\* whatever it returns, changes the producer slot, as no try_receive or
\* try_peek changes the consumer slot, so a parked producer's registration
\* survives every try_send.
C25_ImmediateRegistersNothing ==
    [][/\ (last'.op = "try_send" /\ TrySend) =>
            /\ senders_waker' = senders_waker
            /\ receiver_waker' \in {receiver_waker, NoWaker}
            /\ last'.res = "Full" =>
                 /\ receiver_waker' = receiver_waker
                 /\ queue' = queue
                 /\ signalled' = signalled
       /\ (last'.op \in {"try_receive", "try_peek"}
           /\ (TryReceive \/ TryPeek)) =>
            /\ receiver_waker' = receiver_waker
            /\ senders_waker' \in {senders_waker, NoWaker}
            /\ last'.res = "Empty" =>
                 /\ senders_waker' = senders_waker
                 /\ queue' = queue
                 /\ signalled' = signalled]_vars

\* a try_send returned Full while a send continuation stayed registered
C25_Witness ==
    /\ last = [op |-> "try_send", res |-> "Full"]
    /\ is_full_ch
    /\ senders_waker \in Spawned
    /\ SendPending(senders_waker)
    /\ ~signalled[senders_waker]

\* ------------------------------------------- dropping a Pending continuation
\* The scenario of the two parked sends, where one Pending send future may be
\* dropped before it completes (the task is cancelled, or the send loses a
\* select).  SendFuture has no Drop impl: the channel is not told.
\* the messages of the send futures dropped while Pending
CancelledMsgs ==
    {m \in {N + 1, N + 2} :
       m \notin Range(sent) /\ \A t \in Tasks : fut[t].message # m}
\* the send future whose handle is in the producer slot is dropped while
\* Pending; at most one of the two is dropped
ScenCancel(t) ==
    /\ CancelledMsgs = {}
    /\ SendPending(t)
    /\ senders_waker = t
    /\ Drop(t)

CancelNext ==
    \/ ScenNext
    \/ \E t \in Spawned : ScenCancel(t)

\* the executor polls every signalled continuation again and the consumer
\* keeps receiving; nothing obliges a task to drop its future
CancelSpec ==
    /\ ScenInit
    /\ [][CancelNext]_vars
    /\ \A t \in Spawned : WF_vars(signalled[t] /\ ScenPollSend(t))
    /\ WF_vars(ScenReceive)

\* C26 (frame): dropping a Pending send or receive continuation changes
\* neither the queue nor a waker slot nor a wake flag: the registration of
\* the dropped continuation stays in its slot.
C26_DropChangesNothing ==
    [][\A t \in Spawned :
         (fut[t].state = "Pending" /\ fut'[t] = NoFuture /\ Drop(t)) =>
            /\ queue' = queue
            /\ receiver_waker' = receiver_waker
            /\ senders_waker' = senders_waker
            /\ signalled' = signalled
            /\ sent' = sent /\ received' = received]_vars

\* a Pending send continuation was dropped and is still registered
C26_Witness ==
    /\ senders_waker \in Spawned
    /\ fut[senders_waker] = NoFuture
    /\ ~signalled[senders_waker]
    /\ is_full_ch
    /\ \E t \in Spawned : SendPending(t) /\ ~signalled[t]
    /\ last = [op |-> "SendFuture::poll", res |-> "Pending"]

\* C26 (harmless): once a Pending send continuation was dropped, the stale
\* registration does not keep the other pending send continuation from
\* completing while the consumer keeps receiving.
C26_StaleRegistrationHarmless ==
    (CancelledMsgs # {}) ~> (\A t \in Spawned : SendDone(t))

C28_SameTransition(c) ==
    \A cx \in Tasks :
       LET q == try_receive_with_context(c, cx) IN
       /\ q.res \in {"Ok", "Empty"}
       /\ poll_receive(c, cx) =
            [q EXCEPT !.res = IF q.res = "Ok" THEN "Ready" ELSE "Pending"]

\* C28: poll_receive(cx) and try_receive_with_context(Some(cx)) are the same
\* transition.  In every channel state in which a receive continuation is
\* polled (a task that holds no future can poll one in any state) and for
\* every context, they leave the same queue, producer slot and consumer
\* slot, call the same wakers and return the same message, Ready(v) where
\* the other returns Ok(v) and Pending where it returns Empty; so the poll
\* ends in that one successor state whichever view made it.
C28_PollReceiveIsTryReceive ==
    [][\A t \in Spawned :
         (last'.op = "ReceiveFuture::poll" /\ PollReceive(t)) =>
            /\ C28_SameTransition(State)
            /\ StateAfter = After(poll_receive(State, t))
            /\ StateAfter = After(try_receive_with_context(State, t))
            /\ last'.res = poll_receive(State, t).res]_vars

\* a receive continuation parked on the empty channel while a producer
\* handle is registered
C28_Witness ==
    /\ last = [op |-> "ReceiveFuture::poll", res |-> "Pending"]
    /\ is_empty_ch
    /\ receiver_waker \in Spawned
    /\ ReceivePending(receiver_waker)
    /\ senders_waker \in Spawned \ {receiver_waker}
    /\ received # <<>>

\* what one lock closure did, seen from the states before and after it
NewlySignalled == {t \in Tasks : signalled'[t] /\ ~signalled[t]}
SlotsEmptied ==
    {s \in {"senders_waker", "receiver_waker"} :
       IF s = "senders_waker"
       THEN senders_waker # NoWaker /\ senders_waker' = NoWaker
       ELSE receiver_waker # NoWaker /\ receiver_waker' = NoWaker}
OneElementOrNone ==
    \/ queue' = queue
    \/ queue # <<>> /\ queue' = Tail(queue)
    \/ Len(queue') = Len(queue) + 1 /\ IsPrefix(queue, queue')
AtMostOneWake == Cardinality(NewlySignalled) <= 1 /\ Cardinality(SlotsEmptied) <= 1

\* C29 as stated: every critical section, clear included, enqueues or
\* dequeues at most one element and issues at most one wake.
C29_AtMostOneElement == [][OneElementOrNone /\ AtMostOneWake]_vars

\* C29: every critical section issues at most one wake (it takes the handle
\* out of at most one slot and signals at most one task); every critical
\* section other than clear enqueues one element at the back, dequeues the
\* one at the front or leaves the queue as it was; clear removes every
\* queued element, up to N of them.
C29_OneWakeOneElementButClear ==
    [][/\ AtMostOneWake
       /\ IF last'.op = "clear" /\ Clear
          THEN /\ queue' = <<>>
               /\ discarded' = discarded \cup Range(queue)
          ELSE OneElementOrNone]_vars

\* one clear removed the two messages of the full capacity-2 channel and
\* woke the parked sender
C29_Witness ==
    /\ N = 2
    /\ last = [op |-> "clear", res |-> "Unit"]
    /\ sent = <<1, 2>> /\ received = <<>> /\ discarded = {1, 2}
    /\ queue = <<>>
    /\ senders_waker = NoWaker
    /\ \E t \in Spawned :
         SendPending(t) /\ fut[t].message = 3 /\ signalled[t]

\* -------------------------------- the channel without the readiness polls
\* Programs that use try_send / try_receive / try_peek / clear and the send
\* and receive futures only: nothing calls poll_ready_to_send or
\* poll_ready_to_receive (ready_to_receive().await).
CoreNext ==
    \/ TrySend
    \/ TryReceive
    \/ TryPeek
    \/ Clear
    \/ \E t \in Spawned : Send(t)
    \/ \E t \in Spawned : PollSend(t)
    \/ \E t \in Spawned : PollReceive(t)
    \/ \E t \in Spawned : Drop(t)

CoreSpec == Init /\ [][CoreNext]_vars

\* C30: without the readiness polls, in every reachable state a handle in
\* the producer slot means the queue is full and a handle in the consumer
\* slot means the queue is empty.
C30_SlotImpliesQueueState ==
    /\ senders_waker # NoWaker => is_full(queue)
    /\ receiver_waker # NoWaker => is_empty(queue)

\* after a clear the channel filled up again and a send continuation parked
C30_Witness ==
    /\ last = [op |-> "SendFuture::poll", res |-> "Pending"]
    /\ discarded # {}
    /\ is_full_ch
    /\ senders_waker \in Spawned
    /\ SendPending(senders_waker)
    /\ receiver_waker = NoWaker

\* a is b with some elements left out, the others in b's order
RECURSIVE IsSubseq(_, _)
IsSubseq(a, b) ==
    IF a = <<>> THEN TRUE
    ELSE IF b = <<>> THEN FALSE
    ELSE IF Head(a) = Head(b) THEN IsSubseq(Tail(a), Tail(b))
    ELSE IsSubseq(a, Tail(b))

\* C31: clear() removes every queued message and delivers none of them, and
\* leaves the consumer slot as it was; on a queue that is not full it leaves
\* the producer slot as it was and signals nobody.  With clear() among the
\* operations, the received values are the accepted values with some left
\* out, in the order of acceptance, and a message that was queued at a
\* clear() is never returned by a receive.
C31_ClearDiscards ==
    [][/\ (last'.op = "clear" /\ Clear) =>
            /\ queue' = <<>>
            /\ received' = received
            /\ discarded' = discarded \cup Range(queue)
            /\ receiver_waker' = receiver_waker
            /\ ~is_full(queue) =>
                 /\ senders_waker' = senders_waker
                 /\ signalled' = signalled
       /\ (received' # received \/ discarded' # discarded) =>
            /\ IsSubseq(received', sent')
            /\ Range(received') \cap discarded' = {}
            /\ Range(queue') \cap discarded' = {}]_vars

\* 1 was received, 2 was discarded by a clear on the capacity-2 channel that
\* was not full, and 3, accepted afterwards, was received
C31_Witness ==
    /\ N = 2
    /\ sent = <<1, 2, 3>>
    /\ received = <<1, 3>>
    /\ discarded = {2}
    /\ queue = <<>>
    /\ last = [op |-> "try_receive", res |-> "Ok"]

====
